---- MODULE Spec2Model ----
(***************************************************************************)
(* Thermal label printer server: the two deployable variants of the        *)
(* GET /print endpoint and their label renderers.                          *)
(*   variant "A"  src/unnamed/part_000  generic multi-item label           *)
(*   variant "B"  src/server.js         branded single label with logo     *)
(*                                                                         *)
(* JavaScript strings are sequences of one-character strings.  A rendered  *)
(* HTML document is a sequence of segments: a segment is either a piece of *)
(* the template literal (site "markup"/"rect"), or the text produced by    *)
(* one ${...} interpolation, tagged with the interpolation site.           *)
(***************************************************************************)
EXTENDS Integers, Sequences, FiniteSets, TLC

(***************************************************************************)
(* Bounds of the model                                                     *)
(***************************************************************************)
\* largest well-formed labelCount a request carries
MaxCopies == 3
\* longest lineItems array a request carries (the code shows at most 5 rows)
MaxItems == 7
\* longest order name in the barcode specification
MaxNameLen == 3
\* number of calendar days the clock can advance
MaxDay == 2

(***************************************************************************)
(* Characters and strings                                                  *)
(***************************************************************************)
Uppers == << "A", "B", "C", "D", "E", "F", "G", "H", "I", "J", "K", "L", "M",
             "N", "O", "P", "Q", "R", "S", "T", "U", "V", "W", "X", "Y", "Z" >>

Lowers == << "a", "b", "c", "d", "e", "f", "g", "h", "i", "j", "k", "l", "m",
             "n", "o", "p", "q", "r", "s", "t", "u", "v", "w", "x", "y", "z" >>

DigitChars == << "0", "1", "2", "3", "4", "5", "6", "7", "8", "9" >>

\* character -> UTF-16 code unit (String.prototype.charCodeAt)
CharCodes ==
  { <<" ", 32>>, <<"\"", 34>>, <<"&", 38>>, <<"'", 39>>, <<"-", 45>>,
    <<"/", 47>>, <<"<", 60>>, <<">", 62>> }
  \cup { <<DigitChars[i], 47 + i>> : i \in 1..10 }
  \cup { <<Uppers[i], 64 + i>> : i \in 1..26 }
  \cup { <<Lowers[i], 96 + i>> : i \in 1..26 }

charCodeAt(c) == (CHOOSE p \in CharCodes : p[1] = c)[2]

fromCharCode(n) == (CHOOSE p \in CharCodes : p[2] = n)[1]

IsDigit(c) == charCodeAt(c) >= 48 /\ charCodeAt(c) <= 57

IsUpper(c) == charCodeAt(c) >= 65 /\ charCodeAt(c) <= 90

IsLower(c) == charCodeAt(c) >= 97 /\ charCodeAt(c) <= 122

\* the character class [a-zA-Z0-9] of the barcode's regular expression
IsAlnum(c) == IsDigit(c) \/ IsUpper(c) \/ IsLower(c)

RECURSIVE Concat(_)
\* Array.prototype.join('') of a sequence of sequences
Concat(ss) == IF ss = << >> THEN << >> ELSE Head(ss) \o Concat(Tail(ss))

RECURSIVE ReplaceAll(_, _, _)
\* String.prototype.replace(/c/g, repl): every occurrence of character c
ReplaceAll(s, c, repl) ==
  IF s = << >> THEN << >>
  ELSE (IF Head(s) = c THEN repl ELSE <<Head(s)>>) \o ReplaceAll(Tail(s), c, repl)

RECURSIVE StripNonAlnum(_)
\* text.replace(/[^a-zA-Z0-9]/g, '')
StripNonAlnum(s) ==
  IF s = << >> THEN << >>
  ELSE (IF IsAlnum(Head(s)) THEN <<Head(s)>> ELSE << >>) \o StripNonAlnum(Tail(s))

\* String.prototype.toUpperCase on the modelled characters
toUpperCase(s) ==
  [i \in 1..Len(s) |->
     IF IsLower(s[i]) THEN fromCharCode(charCodeAt(s[i]) - 32) ELSE s[i]]

RECURSIVE IndexOf(_, _, _)
\* first index >= i of character c in s, 0 when there is none
IndexOf(s, c, i) ==
  IF i > Len(s) THEN 0 ELSE IF s[i] = c THEN i ELSE IndexOf(s, c, i + 1)

\* s.split(' ')[0]: the text before the first space (all of s without one)
SplitFirst(s) ==
  LET k == IndexOf(s, " ", 1)
  IN  IF k = 0 THEN s ELSE SubSeq(s, 1, k - 1)

RECURSIVE Digits(_)
\* Number -> decimal string, for integers (template interpolation of a number)
Digits(n) ==
  IF n < 0 THEN <<"-">> \o Digits(0 - n)
  ELSE IF n < 10 THEN <<fromCharCode(48 + n)>>
  ELSE Digits(n \div 10) \o <<fromCharCode(48 + (n % 10))>>

(***************************************************************************)
(* JavaScript values                                                       *)
(***************************************************************************)
Undefined == [t |-> "undefined", n |-> 0, s |-> << >>]

Null == [t |-> "null", n |-> 0, s |-> << >>]

Num(k) == [t |-> "number", n |-> k, s |-> << >>]

Str(cs) == [t |-> "string", n |-> 0, s |-> cs]

\* ToBoolean of a primitive
Truthy(v) ==
  CASE v.t = "undefined" -> FALSE
    [] v.t = "null" -> FALSE
    [] v.t = "number" -> v.n # 0
    [] v.t = "string" -> v.s # << >>
    [] OTHER -> TRUE

\* a || b
Or(a, b) == IF Truthy(a) THEN a ELSE b

\* String(v) of a primitive
StringOf(v) ==
  CASE v.t = "string" -> v.s
    [] v.t = "number" -> Digits(v.n)
    [] v.t = "null" -> <<"n", "u", "l", "l">>
    [] OTHER -> <<"u", "n", "d", "e", "f", "i", "n", "e", "d">>

\* an object literal / parsed JSON object with the given own properties
Obj(fields) == [t |-> "object", n |-> 0, s |-> << >>, f |-> fields]

\* an array with the given elements
Arr(elems) == [t |-> "array", n |-> 0, s |-> << >>, a |-> elems]

\* property read v.k where v is not null/undefined: own properties of an
\* object, undefined on a number, string or array for the names used here
Get(v, k) ==
  IF v.t = "object" /\ k \in DOMAIN v.f THEN v.f[k] ELSE Undefined

(***************************************************************************)
(* escapeHtml, parseInt, generateBarcodeLines                              *)
(***************************************************************************)
escapeHtml(text) ==
  IF ~Truthy(text) THEN << >>
  ELSE ReplaceAll(ReplaceAll(ReplaceAll(ReplaceAll(ReplaceAll(StringOf(text),
         "&", <<"&", "a", "m", "p", ";">>),
         "<", <<"&", "l", "t", ";">>),
         ">", <<"&", "g", "t", ";">>),
         "\"", <<"&", "q", "u", "o", "t", ";">>),
         "'", <<"&", "#", "0", "3", "9", ";">>)

RECURSIVE SkipSpaces(_)
SkipSpaces(s) ==
  IF s # << >> /\ Head(s) = " " THEN SkipSpaces(Tail(s)) ELSE s

\* value of character c as a digit in the radix, -1 when it is none
DigitVal(c, radix) ==
  LET code == charCodeAt(c)
      v == IF IsDigit(c) THEN code - 48
           ELSE IF IsUpper(c) THEN code - 55
           ELSE IF IsLower(c) THEN code - 87
           ELSE 99
  IN  IF v < radix THEN v ELSE 0 - 1

RECURSIVE DigitPrefix(_, _, _, _)
\* number read from the longest prefix of s made of digits of the radix;
\* any becomes TRUE once a digit was read
DigitPrefix(s, radix, acc, any) ==
  IF s = << >> \/ DigitVal(Head(s), radix) < 0
  THEN [nan |-> ~any, n |-> acc]
  ELSE DigitPrefix(Tail(s), radix, acc * radix + DigitVal(Head(s), radix), TRUE)

\* parseInt(v) without a radix: String(v), leading white space skipped, an
\* optional sign, an optional 0x/0X prefix, then the longest digit prefix;
\* NaN when no digit follows (of the signs only '-' is among the characters
\* modelled)
parseInt(v) ==
  LET s0 == SkipSpaces(StringOf(v))
      neg == s0 # << >> /\ Head(s0) = "-"
      s1 == IF neg THEN Tail(s0) ELSE s0
      hex == Len(s1) >= 2 /\ s1[1] = "0" /\ s1[2] \in {"x", "X"}
      r == IF hex THEN DigitPrefix(SubSeq(s1, 3, Len(s1)), 16, 0, FALSE)
           ELSE DigitPrefix(s1, 10, 0, FALSE)
  IN  [nan |-> r.nan, n |-> IF neg THEN 0 - r.n ELSE r.n]

\* parseInt(labelCount) || 1: NaN and 0 are falsy
CopiesOf(labelCount) ==
  LET p == parseInt(labelCount)
  IN  IF p.nan \/ p.n = 0 THEN 1 ELSE p.n

(***************************************************************************)
(* Rendered documents                                                      *)
(***************************************************************************)
\* a fixed piece of the template literal
Markup(name) == [site |-> "markup", text |-> <<name>>, geom |-> << >>]

\* the text one interpolation put at a site
Text(site, cs) == [site |-> site, text |-> cs, geom |-> << >>]

\* <rect x y width height fill="black"/>
Rect(x, y, w, h) == [site |-> "rect", text |-> << >>, geom |-> <<x, y, w, h>>]

RECURSIVE BarcodeFrom(_, _)
\* the forEach of generateBarcodeLines: one rect per character, cursor x
BarcodeFrom(chars, x) ==
  IF chars = << >> THEN << >>
  ELSE LET width == (charCodeAt(Head(chars)) % 3) + 1
       IN  <<Rect(x, 5, width, 30)>> \o BarcodeFrom(Tail(chars), x + width + 2)

\* faulty variant: the non-alphanumeric characters are not stripped
generateBarcodeLines_NoStrip(text) ==
  IF text = << >> THEN << >>
  ELSE BarcodeFrom(text, 10)

\* generateBarcodeLines(text), text a string
generateBarcodeLines(text) ==
  IF text = << >> THEN << >>
  ELSE BarcodeFrom(StripNonAlnum(text), 10)

(***************************************************************************)
(* Variant A: generateThermalLabelHtml(order, copies)                      *)
(***************************************************************************)
\* a function's result: threw = "" and the returned document, or the name of
\* the exception it threw
Returned(doc) == [threw |-> "", html |-> doc]

Threw(name) == [threw |-> name, html |-> << >>]

Min(a, b) == IF a < b THEN a ELSE b

\* new Date().toLocaleDateString('en-US', {year, month: 'short', day}); the
\* clock of the model stays within one month of one year
formattedDate(day) ==
  <<"N", "o", "v", " ">> \o Digits(day) \o <<",", " ", "2", "0", "2", "6">>

\* one callback of lineItems.slice(0, 5).map(...): quantity is interpolated
\* as it is, the title through escapeHtml
ItemRow(item) ==
  << Markup("item-row"),
     Text("item-qty", StringOf(Or(Get(item, "quantity"), Num(1)))),
     Text("item-name",
          escapeHtml(Or(Or(Get(item, "title"), Get(item, "name")),
                        Str(<<"I", "t", "e", "m">>)))) >>

\* faulty variant: the rows are cut at 4 instead of 5
ShownItems_Four(lineItems) == SubSeq(lineItems.a, 1, Min(Len(lineItems.a), 4))

\* lineItems.slice(0, 5)
ShownItems(lineItems) == SubSeq(lineItems.a, 1, Min(Len(lineItems.a), 5))

\* whether building itemsHtml throws a TypeError: .slice / .map is missing on
\* a value that is no array, and item.quantity cannot be read on null
ItemsThrow(lineItems) ==
  \/ lineItems.t # "array"
  \/ \E i \in 1..Len(ShownItems(lineItems)) :
        ShownItems(lineItems)[i].t \in {"null", "undefined"}

itemsHtml(lineItems) ==
  Concat([i \in 1..Len(ShownItems(lineItems)) |-> ItemRow(ShownItems(lineItems)[i])])

\* moreItemsCount > 0 ? `+ ${moreItemsCount} more items` : ''
moreItemsHtml(lineItems) ==
  LET moreItemsCount == Len(lineItems.a) - 5
  IN  IF moreItemsCount > 0
      THEN <<Text("more-items", Digits(moreItemsCount))>>
      ELSE << >>

\* cond ? `<div class=site>${escapeHtml(cond)}</div>` : ''
Optional(site, v) ==
  IF Truthy(v) THEN <<Text(site, escapeHtml(v))>> ELSE << >>

Empty == Str(<< >>)

\* one <div class="label"> ... </div> of variant A
LabelA(order, shippingAddress, lineItems, day) ==
  << Markup("label"),
     Text("order-number", escapeHtml(order.name)),
     Text("order-date", formattedDate(day)),
     Text("recipient-name",
          escapeHtml(Or(Get(shippingAddress, "name"), Str(<<"N", "/", "A">>)))) >>
  \o Optional("company", Get(shippingAddress, "company"))
  \o <<Text("street", escapeHtml(Or(Get(shippingAddress, "address1"), Empty)))>>
  \o Optional("street2", Get(shippingAddress, "address2"))
  \o << Text("city", escapeHtml(Or(Get(shippingAddress, "city"), Empty))),
        Text("province",
             escapeHtml(Or(Or(Get(shippingAddress, "provinceCode"),
                              Get(shippingAddress, "province")), Empty))),
        Text("zip", escapeHtml(Or(Get(shippingAddress, "zip"), Empty))),
        Text("country", escapeHtml(Or(Get(shippingAddress, "country"), Empty))) >>
  \o Optional("phone", Get(shippingAddress, "phone"))
  \o <<Markup("items-list")>>
  \o itemsHtml(lineItems)
  \o moreItemsHtml(lineItems)
  \o <<Markup("barcode")>>
  \o generateBarcodeLines(order.name.s)
  \o << Text("barcode-text", escapeHtml(order.name)), Markup("/label") >>

RECURSIVE Join(_, _)
\* Array.prototype.join(sep): the separator between consecutive elements
Join(parts, sep) ==
  IF parts = << >> THEN << >>
  ELSE IF Len(parts) = 1 THEN parts[1]
  ELSE parts[1] \o sep \o Join(Tail(parts), sep)

RECURSIVE JoinTrailing(_, _)
\* faulty variant: the separator after every element, the last included
JoinTrailing(parts, sep) ==
  IF parts = << >> THEN << >>
  ELSE parts[1] \o sep \o JoinTrailing(Tail(parts), sep)

\* faulty variant of labelsHtml: a page break after the last label too
labelsHtml_Trailing(label, copies) ==
  JoinTrailing([i \in 1..copies |-> label], <<Markup("page-break")>>)

\* Array(copies).fill(null).map(() => label).join('<div class="page-break"></div>')
labelsHtml(label, copies) ==
  Join([i \in 1..copies |-> label], <<Markup("page-break")>>)

\* generateThermalLabelHtml(order, copies) of variant A on day `day`
generateThermalLabelHtmlA(order, copies, day) ==
  LET shippingAddress == Or(order.shippingAddress, Obj(<< >>))
      lineItems == Or(order.lineItems, Arr(<< >>))
  IN  IF ItemsThrow(lineItems) THEN Threw("TypeError")
      ELSE IF copies < 0 THEN Threw("RangeError")
      ELSE Returned(
             << Markup("head"), Text("title", escapeHtml(order.name)), Markup("body") >>
             \o labelsHtml(LabelA(order, shippingAddress, lineItems, day), copies)
             \o <<Markup("/body")>>)

(***************************************************************************)
(* Variant B: generateThermalLabelHtml(order), with the cached logo        *)
(***************************************************************************)
\* faulty variant: the name is used whole instead of its first token
firstNameOf_WholeName(shippingAddress) ==
  LET fn == Get(shippingAddress, "firstName")
      nm == Get(shippingAddress, "name")
  IN  IF Truthy(fn) THEN [threw |-> "", val |-> fn]
      ELSE IF ~Truthy(nm) THEN [threw |-> "", val |-> Str(<<"C", "u", "s", "t", "o", "m", "e", "r">>)]
      ELSE IF nm.t # "string" THEN [threw |-> "TypeError", val |-> Undefined]
      ELSE [threw |-> "", val |-> Str(nm.s)]

\* shippingAddress.firstName ||
\*   (shippingAddress.name ? shippingAddress.name.split(' ')[0] : 'Customer');
\* .split is missing on a truthy name that is no string
firstNameOf(shippingAddress) ==
  LET fn == Get(shippingAddress, "firstName")
      nm == Get(shippingAddress, "name")
  IN  IF Truthy(fn) THEN [threw |-> "", val |-> fn]
      ELSE IF ~Truthy(nm) THEN [threw |-> "", val |-> Str(<<"C", "u", "s", "t", "o", "m", "e", "r">>)]
      ELSE IF nm.t # "string" THEN [threw |-> "TypeError", val |-> Undefined]
      ELSE [threw |-> "", val |-> Str(SplitFirst(nm.s))]

\* generateThermalLabelHtml(order) of variant B on day `day`;
\* firstName.toUpperCase is missing on a first name that is no string
generateThermalLabelHtmlB(order, logo, day) ==
  LET shippingAddress == Or(order.shippingAddress, Obj(<< >>))
      firstName == firstNameOf(shippingAddress)
  IN  IF firstName.threw # "" THEN Threw(firstName.threw)
      ELSE IF firstName.val.t # "string" THEN Threw("TypeError")
      ELSE Returned(
             << Markup("head"), Text("title", escapeHtml(order.name)), Markup("body"),
                Markup("label"),
                Text("customer-name", escapeHtml(Str(toUpperCase(firstName.val.s)))),
                Text("logo", logo),
                Text("date", formattedDate(day)),
                Text("order-number", escapeHtml(order.name)),
                Markup("social-footer"), Markup("/label"), Markup("/body") >>)

(***************************************************************************)
(* The query string of a request                                           *)
(***************************************************************************)
\* A JSON-carrying query parameter, by what the handler's three steps do
\* with its text:  "absent"/"empty" fail the if (a missing or empty string
\* is falsy), "malformed-uri" makes decodeURIComponent throw URIError (a
\* stray %), "not-json" makes JSON.parse throw SyntaxError, and "json"
\* decodes and parses to the value val.
Param(raw, val) == [raw |-> raw, val |-> val]

Absent == Param("absent", Undefined)

Json(v) == Param("json", v)

\* if (req.query.X): the parameter is a non-empty string
Supplied(p) == p.raw \notin {"absent", "empty"}

\* JSON.parse(decodeURIComponent(p))
JSONparse(p) ==
  CASE p.raw = "malformed-uri" -> [threw |-> "URIError", val |-> Undefined]
    [] p.raw = "not-json" -> [threw |-> "SyntaxError", val |-> Undefined]
    [] OTHER -> [threw |-> "", val |-> p.val]

\* faulty variant: each parameter is parsed under its own try/catch
ParseQuery_PerParam(query) ==
  LET sa == IF Supplied(query.shippingAddress)
            THEN JSONparse(query.shippingAddress) ELSE [threw |-> "", val |-> Obj(<< >>)]
      li == IF Supplied(query.lineItems)
            THEN JSONparse(query.lineItems) ELSE [threw |-> "", val |-> Arr(<< >>)]
  IN  [ shippingAddress |-> IF sa.threw # "" THEN Obj(<< >>) ELSE sa.val,
        lineItems |-> IF li.threw # "" THEN Arr(<< >>) ELSE li.val,
        caught |-> IF sa.threw # "" THEN sa.threw ELSE li.threw ]

\* the try block of the /print handler: shippingAddress, then lineItems, one
\* catch for both; caught names the exception that reached the catch
ParseQuery(query) ==
  LET sa == IF Supplied(query.shippingAddress)
            THEN JSONparse(query.shippingAddress) ELSE [threw |-> "", val |-> Obj(<< >>)]
      li == IF Supplied(query.lineItems)
            THEN JSONparse(query.lineItems) ELSE [threw |-> "", val |-> Arr(<< >>)]
  IN  IF sa.threw # ""
      THEN [shippingAddress |-> Obj(<< >>), lineItems |-> Arr(<< >>), caught |-> sa.threw]
      ELSE IF li.threw # ""
      THEN [shippingAddress |-> sa.val, lineItems |-> Arr(<< >>), caught |-> li.threw]
      ELSE [shippingAddress |-> sa.val, lineItems |-> li.val, caught |-> ""]

\* the order literal passed to generateThermalLabelHtml
OrderOf(query) ==
  LET parsed == ParseQuery(query)
  IN  [ id |-> query.orderId,
        name |-> Or(query.orderName, Str(<<"O", "r", "d", "e", "r">>)),
        shippingAddress |-> parsed.shippingAddress,
        lineItems |-> parsed.lineItems ]

\* const { labelCount = 1 } = req.query: the default replaces undefined only
labelCountOf(query) ==
  IF query.labelCount.t = "undefined" THEN Num(1) ELSE query.labelCount

(***************************************************************************)
(* The server process                                                      *)
(***************************************************************************)
VARIABLES
  variant,     \* which of the two services this process is: "A" or "B"
  pc,          \* "starting" while the module body runs, then "listening"
  logoBase64,  \* variant B's module-level logo string
  today,       \* the day new Date() returns
  req,         \* the request last handled: its path and query
  order,       \* the order the /print handler passed to the renderer
  copies,      \* the copy count it passed (variant A)
  res,         \* the response to that request
  console      \* what console.error was last called with ("" for nothing)

vars == <<variant, pc, logoBase64, today, req, order, copies, res, console>>

Query(orderName, labelCount, shippingAddress, lineItems) ==
  [ orderId |-> Str(<<"7">>), orderName |-> orderName, labelCount |-> labelCount,
    shippingAddress |-> shippingAddress, lineItems |-> lineItems ]

NoQuery == Query(Undefined, Undefined, Absent, Absent)

NoOrder == [id |-> Undefined, name |-> Undefined,
            shippingAddress |-> Undefined, lineItems |-> Undefined]

Response(status, threw, body) == [status |-> status, threw |-> threw, body |-> body]

\* the bytes of logo.png, base64-encoded
LogoBytes == <<"i", "V", "B", "O">>

Init ==
  /\ variant \in {"A", "B"}
  /\ pc = "starting"
  /\ logoBase64 = << >>
  /\ today = 1
  /\ req = [path |-> "", query |-> NoQuery]
  /\ order = NoOrder
  /\ copies = 0
  /\ res = Response(0, "", << >>)
  /\ console = ""

\* variant A's module body: nothing to load
StartA ==
  /\ pc = "starting" /\ variant = "A"
  /\ pc' = "listening"
  /\ UNCHANGED <<variant, logoBase64, today, req, order, copies, res, console>>

\* variant B's module body: readFileSync(logo.png) succeeds
StartLogoLoaded ==
  /\ pc = "starting" /\ variant = "B"
  /\ logoBase64' = LogoBytes
  /\ pc' = "listening"
  /\ UNCHANGED <<variant, today, req, order, copies, res, console>>

\* variant B's module body: readFileSync throws, the catch logs it
StartLogoMissing ==
  /\ pc = "starting" /\ variant = "B"
  /\ console' = "Could not load logo.png:"
  /\ pc' = "listening"
  /\ UNCHANGED <<variant, logoBase64, today, req, order, copies, res>>

\* the calendar day changes
Tick ==
  /\ pc = "listening"
  /\ today < MaxDay
  /\ today' = today + 1
  /\ UNCHANGED <<variant, pc, logoBase64, req, order, copies, res, console>>

\* GET /
Health ==
  /\ pc = "listening"
  /\ req' = [path |-> "/", query |-> NoQuery]
  /\ res' = Response(200, "", <<Text("plain", <<"r", "u", "n", "n", "i", "n", "g">>)>>)
  /\ order' = NoOrder
  /\ copies' = 0
  /\ console' = ""
  /\ UNCHANGED <<variant, pc, logoBase64, today>>

\* the handler's call generateThermalLabelHtml(order, copies) / (order)
Render(v, o, n, logo, day) ==
  IF v = "A"
  THEN generateThermalLabelHtmlA(o, n, day)
  ELSE generateThermalLabelHtmlB(o, logo, day)

\* what the renderer gives for a query
Rendered(v, query, logo, day) ==
  Render(v, OrderOf(query), CopiesOf(labelCountOf(query)), logo, day)

\* res.send(html) with status 200, or, when the renderer threw, the 500 of
\* the framework's error handler for an exception that left the handler
Respond(r) ==
  IF r.threw = "" THEN Response(200, "", r.html) ELSE Response(500, r.threw, << >>)

\* faulty variant: shippingAddress and lineItems are declared at module level, so a
\* request whose parse fails renders what the previous request left in them
GetPrint_SharedLocals(query) ==
  LET o == IF ParseQuery(query).caught # "" /\ req.path = "/print"
           THEN [OrderOf(query) EXCEPT !.shippingAddress = order.shippingAddress,
                                       !.lineItems = order.lineItems]
           ELSE OrderOf(query)
  IN  /\ pc = "listening"
      /\ req' = [path |-> "/print", query |-> query]
      /\ console' = IF ParseQuery(query).caught # ""
                    THEN "Error parsing query params:" ELSE ""
      /\ order' = o
      /\ copies' = IF variant = "A" THEN CopiesOf(labelCountOf(query)) ELSE 0
      /\ res' = Respond(Render(variant, o, CopiesOf(labelCountOf(query)),
                               logoBase64, today))
      /\ UNCHANGED <<variant, pc, logoBase64, today>>

\* GET /print with the given query: the whole handler
GetPrint(query) ==
  /\ pc = "listening"
  /\ req' = [path |-> "/print", query |-> query]
  /\ console' = IF ParseQuery(query).caught # ""
                THEN "Error parsing query params:" ELSE ""
  /\ order' = OrderOf(query)
  /\ copies' = IF variant = "A" THEN CopiesOf(labelCountOf(query)) ELSE 0
  /\ res' = Respond(Rendered(variant, query, logoBase64, today))
  /\ UNCHANGED <<variant, pc, logoBase64, today>>

(***************************************************************************)
(* Requests                                                                *)
(***************************************************************************)
JaneDoe == <<"J", "a", "n", "e", " ", "D", "o", "e">>

\* the five characters escapeHtml replaces
Specials == <<"<", "&", "'", "\"", ">">>

FullAddress ==
  Obj([ name |-> Str(JaneDoe), firstName |-> Undefined,
        company |-> Str(Specials), address1 |-> Str(<<"1", " ", "A">>),
        city |-> Str(<<"O", "t", "t", "a", "w", "a">>), province |-> Str(<<"O", "N">>),
        zip |-> Num(7), phone |-> Str(<<"5", "5", "5">>) ])

\* shippingAddress parameters: missing, empty, undecodable, unparsable, and
\* JSON of an address, of null, of a number, and of addresses whose name
\* fields are no strings or carry markup
AddressParams ==
  { Absent, Param("empty", Undefined), Param("malformed-uri", Undefined),
    Param("not-json", Undefined), Json(FullAddress), Json(Null), Json(Num(5)),
    Json(Obj([firstName |-> Num(5)])), Json(Obj([name |-> Num(5)])),
    Json(Obj([firstName |-> Str(Specials)])) }

\* line item n: title the n-th capital letter, quantity n
Item(n) == Obj([title |-> Str(<<Uppers[n]>>), quantity |-> Num(n)])

\* lineItems parameters: missing, unparsable, and JSON of an array of items,
\* of a number, of a string, of an array holding null, and of an item whose
\* quantity is a string carrying markup
ItemParams ==
  { Absent, Param("not-json", Undefined), Json(Arr(<<Item(1), Item(2)>>)),
    Json(Num(5)), Json(Str(<<"a", "b">>)), Json(Arr(<<Null>>)),
    Json(Arr(<<Obj([name |-> Str(Specials), quantity |-> Str(<<"<", "b", ">">>)])>>)) }

\* labelCount texts: missing, empty, 0..MaxCopies, negative, no digits, a
\* digit prefix followed by a letter, leading white space
CountTexts ==
  { Undefined, Str(<< >>), Str(<<"-", "1">>), Str(<<"x">>), Str(<<"2", "x">>),
    Str(<<" ", "2">>) }
  \cup { Str(Digits(n)) : n \in 0..MaxCopies }

\* every pair of a shippingAddress and a lineItems parameter; the address
\* parameters again with a negative labelCount; every labelCount text with
\* and without an order name and an address
Requests ==
  { Query(Undefined, Undefined, sa, li) : sa \in AddressParams, li \in ItemParams }
  \cup
  { Query(Undefined, Str(<<"-", "1">>), sa, Absent) : sa \in AddressParams }
  \cup
  { Query(n, c, sa, Absent) :
      n \in {Undefined, Str(<<"A", "<", "&">>)}, c \in CountTexts,
      sa \in {Absent, Json(FullAddress)} }

Next ==
  \/ StartA
  \/ StartLogoLoaded
  \/ StartLogoMissing
  \/ Tick
  \/ Health
  \/ \E q \in Requests : GetPrint(q)

Spec == Init /\ [][Next]_vars

(***************************************************************************)
(* Properties of the /print endpoint                                       *)
(***************************************************************************)
\* the last request handled was a GET /print
Printed == req.path = "/print"

\* positions of the segments of doc with the given site
SitesOf(doc, site) == {i \in 1..Len(doc) : doc[i].site = site}

\* number of <div class="label"> blocks in a document
NumLabels(doc) == Cardinality({i \in 1..Len(doc) : doc[i] = Markup("label")})

\* C1: every GET /print request, whatever its query parameters, is answered
\* with status 200.
AlwaysStatus200 == Printed => res.status = 200

\* the interpolation sites that carry request data
UserSites ==
  { "title", "order-number", "recipient-name", "company", "street", "street2",
    "city", "province", "zip", "country", "phone", "item-qty", "item-name",
    "barcode-text", "customer-name" }

\* the entities escapeHtml writes
Entities ==
  { <<"&", "a", "m", "p", ";">>, <<"&", "l", "t", ";">>, <<"&", "g", "t", ";">>,
    <<"&", "q", "u", "o", "t", ";">>, <<"&", "#", "0", "3", "9", ";">> }

\* no raw < > " ' in the text, and every & opens one of the entities
NoRawSpecial(cs) ==
  \A i \in 1..Len(cs) :
    /\ cs[i] \notin {"<", ">", "\"", "'"}
    /\ cs[i] = "&" =>
         \E e \in Entities :
           /\ i + Len(e) - 1 <= Len(cs)
           /\ SubSeq(cs, i, i + Len(e) - 1) = e

\* C2: in every returned document, the text at every interpolation site
\* that carries request data holds no raw <, >, &, " or '.
EscapedEverywhere ==
  (Printed /\ res.status = 200) =>
    \A i \in 1..Len(res.body) :
      res.body[i].site \in UserSites => NoRawSpecial(res.body[i].text)

\* a labelCount text that holds a character no decimal number holds
NonNumeric(cs) == \E i \in 1..Len(cs) : ~IsDigit(cs[i]) /\ cs[i] \notin {"-", " "}

\* C3: a /print request of variant A whose labelCount is absent, 0 or
\* non-numeric yields exactly one label block, and so does every /print
\* request of variant B.
OneLabelByDefault ==
  LET labelCount == req.query.labelCount
  IN  ( /\ Printed
        /\ \/ variant = "B"
           \/ labelCount.t = "undefined"
           \/ labelCount.s = <<"0">>
           \/ NonNumeric(labelCount.s) )
      => NumLabels(res.body) = 1

\* the text of every segment of doc at the site is cs
AllAt(doc, site, cs) == \A i \in SitesOf(doc, site) : doc[i].text = cs

\* C6: a /print request whose shippingAddress is not valid JSON is answered
\* with status 200, logs an error, passes an empty shippingAddress to the
\* renderer, and the address block shows only empty fields and placeholders.
MalformedAddressDegrades ==
  (Printed /\ req.query.shippingAddress.raw = "not-json") =>
    /\ res.status = 200
    /\ console = "Error parsing query params:"
    /\ order.shippingAddress = Obj(<< >>)
    /\ variant = "A" =>
         /\ SitesOf(res.body, "recipient-name") # {}
         /\ AllAt(res.body, "recipient-name", <<"N", "/", "A">>)
         /\ \A s \in {"street", "city", "province", "zip", "country"} :
              AllAt(res.body, s, << >>)
         /\ \A s \in {"company", "street2", "phone"} : SitesOf(res.body, s) = {}
    /\ variant = "B" =>
         /\ SitesOf(res.body, "customer-name") # {}
         /\ AllAt(res.body, "customer-name", <<"C", "U", "S", "T", "O", "M", "E", "R">>)

\* a query parameter whose text fails to decode or to parse
Fails(p) == p.raw \in {"malformed-uri", "not-json"}

\* C10: when shippingAddress fails to decode or parse, the order has the
\* empty shippingAddress and the empty lineItems even if lineItems is valid
\* JSON; when shippingAddress parses and lineItems fails, the order keeps the
\* parsed shippingAddress and has the empty lineItems.
ParsedInOneTry ==
  Printed =>
    /\ Fails(req.query.shippingAddress) =>
         /\ order.shippingAddress = Obj(<< >>)
         /\ order.lineItems = Arr(<< >>)
    /\ (req.query.shippingAddress.raw = "json" /\ Fails(req.query.lineItems)) =>
         /\ order.shippingAddress = req.query.shippingAddress.val
         /\ order.lineItems = Arr(<< >>)

\* a request with an unparsable shippingAddress and a lineItems parameter
\* that is JSON of a non-empty array was handled
ParsedInOneTryWitness ==
  /\ Printed
  /\ req.query.shippingAddress.raw = "not-json"
  /\ req.query.lineItems.raw = "json"
  /\ req.query.lineItems.val.t = "array"
  /\ req.query.lineItems.val.a # << >>
  /\ order.lineItems = Arr(<< >>)

\* C9: once the server listens, no step changes the process-wide state (which
\* service it is, that it listens, the cached logo), and the response to a
\* /print request is the one its query, the day and the cached logo give,
\* whatever was handled before.
Stateless ==
  [][ pc = "listening" =>
        /\ pc' = "listening"
        /\ variant' = variant
        /\ logoBase64' = logoBase64
        /\ (req'.path = "/print" /\ today' = today) =>
             res' = Respond(Rendered(variant, req'.query, logoBase64, today)) ]_vars

\* variant B with its logo loaded answered a /print request after the day
\* changed and after another request
StatelessWitness ==
  /\ pc = "listening"
  /\ variant = "B"
  /\ logoBase64 = LogoBytes
  /\ today > 1
  /\ Printed
  /\ res.status = 200
  /\ req.query.shippingAddress.raw = "not-json"

(***************************************************************************)
(* Variant A's renderer on well-formed orders                              *)
(***************************************************************************)
\* lineItems arrays of every length 0..MaxItems, each starting at one of
\* three items so that rows tell the items and their order apart
ItemLists ==
  { [i \in 1..len |-> Item(((i + k - 1) % 9) + 1)] : len \in 0..MaxItems, k \in 0..2 }

LabelRequests ==
  { Query(Str(<<"A", "1">>), Str(Digits(c)), sa, Json(Arr(items))) :
      c \in 1..MaxCopies, sa \in {Absent, Json(FullAddress)}, items \in ItemLists }

InitA == Init /\ variant = "A"

NextLabels ==
  \/ StartA
  \/ Tick
  \/ \E q \in LabelRequests : GetPrint(q)

SpecLabels == InitA /\ [][NextLabels]_vars

\* position of the first segment of doc at or after i equal to seg (0 for none)
Find(doc, seg, i) ==
  LET at == {j \in i..Len(doc) : doc[j] = seg}
  IN  IF at = {} THEN 0 ELSE CHOOSE j \in at : \A k \in at : j <= k

\* the segments between <body> and </body>
BodyOf(doc) ==
  SubSeq(doc, Find(doc, Markup("body"), 1) + 1, Find(doc, Markup("/body"), 1) - 1)

\* the pieces of doc between its page-break markers
RECURSIVE SplitAtBreaks(_)
SplitAtBreaks(doc) ==
  LET k == Find(doc, Markup("page-break"), 1)
  IN  IF k = 0 THEN <<doc>>
      ELSE <<SubSeq(doc, 1, k - 1)>> \o SplitAtBreaks(SubSeq(doc, k + 1, Len(doc)))

\* one whole label block: opens, closes, and holds no other opening or close
IsLabelBlock(chunk) ==
  /\ chunk # << >>
  /\ chunk[1] = Markup("label")
  /\ chunk[Len(chunk)] = Markup("/label")
  /\ \A i \in 2..(Len(chunk) - 1) :
       chunk[i] # Markup("label") /\ chunk[i] # Markup("/label")

\* C4: for every copy count n >= 1, the body of variant A's document is n
\* identical label blocks with n - 1 page-break markers, one between each
\* two consecutive blocks and none before the first or after the last.
CopiesSeparatedByBreaks ==
  (Printed /\ variant = "A" /\ res.status = 200 /\ copies >= 1) =>
    LET body == BodyOf(res.body)
        chunks == SplitAtBreaks(body)
    IN  /\ Len(chunks) = copies
        /\ \A i \in 1..Len(chunks) : IsLabelBlock(chunks[i]) /\ chunks[i] = chunks[1]
        /\ Cardinality({i \in 1..Len(body) : body[i] = Markup("page-break")}) = copies - 1
        /\ NumLabels(res.body) = copies

\* a document of at least two copies was returned
CopiesWitness ==
  /\ Printed /\ variant = "A" /\ res.status = 200
  /\ copies >= 2
  /\ NumLabels(res.body) = copies

IsItemName(seg) == seg.site = "item-name"

IsItemQty(seg) == seg.site = "item-qty"

IsMoreItems(seg) == seg.site = "more-items"

\* C5: for a lineItems sequence of length L every label of variant A shows
\* min(L, 5) item rows, those of the first min(L, 5) items in their order,
\* and a "+ N more items" note exactly when L > 5, with N = L - 5.
FirstFiveItemsShown ==
  (Printed /\ variant = "A" /\ res.status = 200 /\ order.lineItems.t = "array") =>
    LET items == order.lineItems.a
        L == Len(items)
        chunks == SplitAtBreaks(BodyOf(res.body))
    IN  \A c \in 1..Len(chunks) :
          LET names == SelectSeq(chunks[c], IsItemName)
              qtys == SelectSeq(chunks[c], IsItemQty)
              more == SelectSeq(chunks[c], IsMoreItems)
          IN  /\ Len(names) = Min(L, 5)
              /\ Len(qtys) = Min(L, 5)
              /\ \A k \in 1..Min(L, 5) :
                   /\ names[k].text = items[k].f.title.s
                   /\ qtys[k].text = Digits(items[k].f.quantity.n)
              /\ (more # << >>) <=> (L > 5)
              /\ L > 5 => (Len(more) = 1 /\ more[1].text = Digits(L - 5))

\* seven items were rendered: five rows and the note "+ 2 more items"
FirstFiveWitness ==
  /\ Printed /\ variant = "A" /\ res.status = 200
  /\ order.lineItems.t = "array"
  /\ Len(order.lineItems.a) = 7
  /\ Cardinality(SitesOf(BodyOf(res.body), "item-name")) = 5 * copies
  /\ \E i \in 1..Len(res.body) : res.body[i] = Text("more-items", <<"2">>)

(***************************************************************************)
(* generateBarcodeLines on every order name                                *)
(***************************************************************************)
BarcodeAlphabet == {"A", "B", "1", "-"}

\* every order name of at most MaxNameLen characters
BarcodeNames == UNION { [1..len -> BarcodeAlphabet] : len \in 0..MaxNameLen }

BarcodeRequests == { Query(Str(n), Undefined, Absent, Absent) : n \in BarcodeNames }

NextBarcode ==
  \/ StartA
  \/ Tick
  \/ \E q \in BarcodeRequests : GetPrint(q)

SpecBarcode == InitA /\ [][NextBarcode]_vars

IsRect(seg) == seg.site = "rect"

\* width of the bar of character c
BarWidth(c) == (charCodeAt(c) % 3) + 1

\* 10 plus the sum of width + 2 over the first k characters of cs
RECURSIVE BarX(_, _)
BarX(cs, k) == IF k = 0 THEN 10 ELSE BarX(cs, k - 1) + BarWidth(cs[k]) + 2

\* C8: the barcode of an order name has one bar per alphanumeric character
\* of the name, in order; the k-th bar has width (charCode mod 3) + 1, y 5,
\* height 30 and x = 10 + the sum of (width + 2) over the earlier bars, so
\* x strictly increases and consecutive bars do not overlap.
BarcodeGeometry ==
  (Printed /\ variant = "A" /\ res.status = 200) =>
    LET alnum == SelectSeq(order.name.s, IsAlnum)
        chunks == SplitAtBreaks(BodyOf(res.body))
    IN  \A c \in 1..Len(chunks) :
          LET bars == SelectSeq(chunks[c], IsRect)
          IN  /\ Len(bars) = Len(alnum)
              /\ \A k \in 1..Len(bars) :
                   bars[k].geom = <<BarX(alnum, k - 1), 5, BarWidth(alnum[k]), 30>>
              /\ \A k \in 1..(Len(bars) - 1) :
                   /\ bars[k].geom[1] < bars[k + 1].geom[1]
                   /\ bars[k].geom[1] + bars[k].geom[3] <= bars[k + 1].geom[1]

\* the name "A-B" was rendered with two bars
BarcodeWitness ==
  /\ Printed /\ variant = "A" /\ res.status = 200
  /\ order.name = Str(<<"A", "-", "B">>)
  /\ Cardinality(SitesOf(res.body, "rect")) = 2

(***************************************************************************)
(* Variant B's customer name                                               *)
(***************************************************************************)
\* values of shippingAddress.firstName and .name: missing, empty, a number,
\* one word, two words, a leading space, the placeholder's own letters, and
\* a word carrying markup
NameValues ==
  { Undefined, Str(<< >>), Num(7), Str(<<"j", "o">>),
    Str(<<"J", "o", " ", "A", "n">>), Str(<<" ", "A">>),
    Str(<<"c", "u", "s", "t", "o", "m", "e", "r">>), Str(<<"a", "<", "b">>) }

CustomerRequests ==
  { Query(Undefined, Undefined, Json(Obj([firstName |-> fn, name |-> nm])), Absent) :
      fn \in NameValues, nm \in NameValues }

InitB == Init /\ variant = "B"

NextCustomer ==
  \/ StartLogoLoaded
  \/ StartLogoMissing
  \/ Tick
  \/ \E q \in CustomerRequests : GetPrint(q)

SpecCustomer == InitB /\ [][NextCustomer]_vars

\* a field that carries a name: a non-empty string
Present(v) == v.t = "string" /\ v.s # << >>

\* the first space-delimited token: the prefix of cs that holds no space and
\* ends at the first space or at the end of cs
FirstToken(cs) ==
  LET k == CHOOSE n \in 0..Len(cs) :
             /\ \A i \in 1..n : cs[i] # " "
             /\ n = Len(cs) \/ cs[n + 1] = " "
  IN  SubSeq(cs, 1, k)

\* the name the derivation rule gives, upper-cased, as HTML text
DerivedName(fn, nm) ==
  escapeHtml(Str(toUpperCase(IF Present(fn) THEN fn.s
                             ELSE IF Present(nm) THEN FirstToken(nm.s)
                             ELSE <<"C", "u", "s", "t", "o", "m", "e", "r">>)))

\* the text shown at the customer-name site of a variant B document
ShownName(doc) == doc[CHOOSE i \in 1..Len(doc) : doc[i].site = "customer-name"].text

CUSTOMER == <<"C", "U", "S", "T", "O", "M", "E", "R">>

\* C7 as stated: the shown name is the upper-cased firstName, else the first
\* space-delimited token of name, else "Customer"; it is never empty when
\* either field is supplied and is "CUSTOMER" exactly when both are absent.
CustomerNameAsClaimed ==
  (Printed /\ variant = "B" /\ res.status = 200) =>
    LET fn == Get(order.shippingAddress, "firstName")
        nm == Get(order.shippingAddress, "name")
        shown == ShownName(res.body)
    IN  /\ shown = DerivedName(fn, nm)
        /\ (Present(fn) \/ Present(nm)) => shown # << >>
        /\ (shown = CUSTOMER) <=> (~Present(fn) /\ ~Present(nm))

\* C7 (amended): the shown name is the upper-cased firstName, else the first
\* space-delimited token of name, else "Customer"; it is "CUSTOMER" whenever
\* both are absent, and it is not empty when firstName is supplied or when
\* name is supplied and does not begin with a space.
CustomerNameDerived ==
  (Printed /\ variant = "B" /\ res.status = 200) =>
    LET fn == Get(order.shippingAddress, "firstName")
        nm == Get(order.shippingAddress, "name")
        shown == ShownName(res.body)
    IN  /\ shown = DerivedName(fn, nm)
        /\ (~Present(fn) /\ ~Present(nm)) => shown = CUSTOMER
        /\ Present(fn) => shown # << >>
        /\ (~Present(fn) /\ Present(nm) /\ nm.s[1] # " ") => shown # << >>

\* a two-word name without a firstName was rendered as its first word
CustomerNameWitness ==
  /\ Printed /\ variant = "B" /\ res.status = 200
  /\ Get(order.shippingAddress, "firstName") = Undefined
  /\ Get(order.shippingAddress, "name") = Str(<<"J", "o", " ", "A", "n">>)
  /\ ShownName(res.body) = <<"J", "O">>

====
